---- MODULE Spec2Model ----
(***************************************************************************)
(* Model of app.py: the Streamlit analyser of Spanish subjunctive verbs.   *)
(*                                                                         *)
(* A text is a sequence of characters; a character is a one-element        *)
(* string.  Characters outside ASCII are written with ASCII spellings:     *)
(*   "a'" "e'" "i'" "o'" "u'" "n~"   the lowercase letters a-acute,        *)
(*                                    e-acute, ..., n-tilde                 *)
(*   "A'" "E'" "I'" "O'" "U'" "N^"   their capitals                        *)
(*   "I."   LATIN CAPITAL LETTER I WITH DOT ABOVE (U+0130)                 *)
(*   "^."   COMBINING DOT ABOVE (U+0307)                                   *)
(*   "u:"   the lowercase letter u-diaeresis                               *)
(* Offsets are 0-based, as in Python; s[i] of the code is s[i + 1] here.   *)
(***************************************************************************)
EXTENDS Integers, Sequences, FiniteSets

VARIABLES
    api_key,        \* value of the sidebar text_input (line 24); "" when empty
    session_state,  \* st.session_state: a function whose domain holds its keys
    texto,          \* value of the text area (line 338)
    resultados,     \* `resultados` of the current script run (lines 368-373)
    ruta,           \* which analysis the current run called
    respuesta,      \* the reply requests.post got in the current run
    palabra,        \* argument of determinar_tiempo / determinar_persona
    tiempo,         \* result of determinar_tiempo(palabra)
    persona,        \* result of determinar_persona(palabra)
    n_piezas,       \* number of pieces typed into the text area so far
    posicion,       \* argument of encontrar_clausula
    clausula        \* result of encontrar_clausula(texto, posicion)

vars == <<api_key, session_state, texto, resultados, ruta, respuesta,
          palabra, tiempo, persona, n_piezas, posicion, clausula>>

\* ------------------------------------------------------------------------
\* Characters and the str / re primitives the code uses.

\* The character class [a-záéíóúñ] of the
\* token pattern, in the order the capitals below follow.
Minusculas ==
    << "a", "b", "c", "d", "e", "f", "g", "h", "i", "j", "k", "l", "m",
       "n", "o", "p", "q", "r", "s", "t", "u", "v", "w", "x", "y", "z",
       "a'", "e'", "i'", "o'", "u'", "n~" >>

Mayusculas ==
    << "A", "B", "C", "D", "E", "F", "G", "H", "I", "J", "K", "L", "M",
       "N", "O", "P", "Q", "R", "S", "T", "U", "V", "W", "X", "Y", "Z",
       "A'", "E'", "I'", "O'", "U'", "N^" >>

Digitos == {"0", "1", "2", "3", "4", "5", "6", "7", "8", "9"}

Rango(s) == {s[i] : i \in DOMAIN s}

LetrasClase == Rango(Minusculas)

LetrasMayusculas == Rango(Mayusculas)

\* \w of a str pattern: letters of any alphabet, digits and the underscore.
CaracteresW == LetrasClase \cup LetrasMayusculas \cup Digitos \cup {"_", "u:"}

EsW(c) == c \in CaracteresW

\* What str.strip() removes.
EsEspacio(c) == c \in {" ", "\t", "\n", "\r"}

\* str.lower() of one character: a sequence, because the lowercase form of
\* U+0130 is two characters long ("i" followed by U+0307).
LowerChar(c) ==
    IF c \in LetrasMayusculas
    THEN << Minusculas[CHOOSE i \in DOMAIN Mayusculas : Mayusculas[i] = c] >>
    ELSE IF c = "I." THEN << "i", "^." >>
    ELSE << c >>

\* s.lower(), by halves.
RECURSIVE Lower(_)
Lower(s) ==
    IF Len(s) = 0 THEN << >>
    ELSE IF Len(s) = 1 THEN LowerChar(s[1])
    ELSE Lower(SubSeq(s, 1, Len(s) \div 2)) \o Lower(SubSeq(s, Len(s) \div 2 + 1, Len(s)))

Min2(a, b) == IF a < b THEN a ELSE b

Max2(a, b) == IF a > b THEN a ELSE b

MinDe(S) == CHOOSE x \in S : \A y \in S : x <= y

MaxDe(S) == 0 - MinDe({0 - x : x \in S})

\* s[a:b] for 0 <= a and 0 <= b.
Slice(s, a, b) == SubSeq(s, a + 1, Min2(b, Len(s)))

\* s.endswith(t)
EndsWith(s, t) ==
    /\ Len(t) <= Len(s)
    /\ SubSeq(s, Len(s) - Len(t) + 1, Len(s)) = t

\* s.find(t, desde): the lowest index >= desde where t occurs, or -1.
Find(s, t, desde) ==
    LET ocurre == {i \in desde .. (Len(s) - Len(t)) :
                       /\ t = << >> \/ s[i + 1] = t[1]
                       /\ SubSeq(s, i + 1, i + Len(t)) = t}
    IN  IF ocurre = {} THEN -1 ELSE MinDe(ocurre)

\* s.rfind(t, desde, hasta): the highest index i with desde <= i and
\* i + len(t) <= min(hasta, len(s)) where t occurs, or -1.
RFind(s, t, desde, hasta) ==
    LET ocurre == {i \in desde .. (Min2(hasta, Len(s)) - Len(t)) :
                       /\ t = << >> \/ s[i + 1] = t[1]
                       /\ SubSeq(s, i + 1, i + Len(t)) = t}
    IN  IF ocurre = {} THEN -1 ELSE MaxDe(ocurre)

\* s.strip()
Strip(s) ==
    LET llenos == {i \in DOMAIN s : ~EsEspacio(s[i])}
    IN  IF llenos = {} THEN << >> ELSE SubSeq(s, MinDe(llenos), MaxDe(llenos))

\* re.sub(r'[^\w]', '', p.lower())
Limpia(p) == SelectSeq(Lower(p), EsW)

\* re.finditer(r'\b[a-z...]+\b', s): the pattern matches a maximal run of \w
\* characters exactly when every character of the run is in the class (a run
\* holding any other \w character has no \b inside it, so no part of it
\* matches).  FinDeRacha(s, i) is the offset that ends the run starting at i.
FinDeRacha(s, i) ==
    LET fuera == {j \in (i + 1) .. (Len(s) - 1) : ~EsW(s[j + 1])}
    IN  IF fuera = {} THEN Len(s) ELSE MinDe(fuera)

\* The offsets where a match starts.
Inicios(s) ==
    {i \in 0 .. (Len(s) - 1) :
        /\ EsW(s[i + 1])
        /\ i = 0 \/ ~EsW(s[i])
        /\ \A k \in (i + 1) .. FinDeRacha(s, i) : s[k] \in LetrasClase}

\* The matches in text order, each <<match.group(), match.start()>>.
Finditer(s) ==
    LET inicios == Inicios(s)
        enesimo(n) == CHOOSE i \in inicios : Cardinality({j \in inicios : j < i}) = n - 1
    IN  [n \in 1 .. Cardinality(inicios) |->
            LET i == enesimo(n) IN <<Slice(s, i, FinDeRacha(s, i)), i>>]

\* ------------------------------------------------------------------------
\* analizar_texto_local: its tables.

\* Window, in characters, searched on each side of the verb.
Ventana == 100

subjuntivo_terminaciones ==
    <<
      <<"a", "r", "a">>, <<"a", "r", "a", "s">>, <<"a'", "r", "a", "m", "o", "s">>, <<"a", "r", "a", "n">>,
      <<"a", "r", "e">>, <<"a", "r", "e", "s">>, <<"a'", "r", "e", "m", "o", "s">>, <<"a", "r", "e", "n">>,
      <<"i", "e", "r", "a">>, <<"i", "e", "r", "a", "s">>, <<"i", "e'", "r", "a", "m", "o", "s">>, <<"i", "e", "r", "a", "n">>,
      <<"i", "e", "r", "e">>, <<"i", "e", "r", "e", "s">>, <<"i", "e'", "r", "e", "m", "o", "s">>, <<"i", "e", "r", "e", "n">>,
      <<"e", "r", "a">>, <<"e", "r", "a", "s">>, <<"e'", "r", "a", "m", "o", "s">>, <<"e", "r", "a", "n">>,
      <<"e", "s", "e">>, <<"e", "s", "e", "s">>, <<"e'", "s", "e", "m", "o", "s">>, <<"e", "s", "e", "n">>,
      <<"a">>, <<"a", "s">>, <<"a", "m", "o", "s">>, <<"a", "n">>,
      <<"e">>, <<"e", "s">>, <<"e", "m", "o", "s">>, <<"e", "n">>,
      <<"a">>, <<"a", "s">>, <<"a", "m", "o", "s">>, <<"a", "n">>,
      <<"s", "e">>, <<"s", "e", "s">>, <<"s", "e", "m", "o", "s">>, <<"s", "e", "n">> >>

verbos_irregulares ==
    <<
      <<"s", "e", "a">>, <<"s", "e", "a", "s">>, <<"s", "e", "a", "m", "o", "s">>, <<"s", "e", "a", "n">>,
      <<"v", "a", "y", "a">>, <<"v", "a", "y", "a", "s">>, <<"v", "a", "y", "a", "m", "o", "s">>, <<"v", "a", "y", "a", "n">>,
      <<"h", "a", "y", "a">>, <<"h", "a", "y", "a", "s">>, <<"h", "a", "y", "a", "m", "o", "s">>, <<"h", "a", "y", "a", "n">>,
      <<"e", "s", "t", "e'">>, <<"e", "s", "t", "e'", "s">>, <<"e", "s", "t", "e", "m", "o", "s">>, <<"e", "s", "t", "e'", "n">>,
      <<"d", "e'">>, <<"d", "e", "s">>, <<"d", "e", "m", "o", "s">>, <<"d", "e", "n">>,
      <<"s", "e", "p", "a">>, <<"s", "e", "p", "a", "s">>, <<"s", "e", "p", "a", "m", "o", "s">>, <<"s", "e", "p", "a", "n">>,
      <<"q", "u", "e", "p", "a">>, <<"q", "u", "e", "p", "a", "s">>, <<"q", "u", "e", "p", "a", "m", "o", "s">>, <<"q", "u", "e", "p", "a", "n">>,
      <<"h", "a", "g", "a">>, <<"h", "a", "g", "a", "s">>, <<"h", "a", "g", "a", "m", "o", "s">>, <<"h", "a", "g", "a", "n">>,
      <<"p", "u", "e", "d", "a">>, <<"p", "u", "e", "d", "a", "s">>, <<"p", "o", "d", "a", "m", "o", "s">>, <<"p", "u", "e", "d", "a", "n">>,
      <<"q", "u", "i", "e", "r", "a">>, <<"q", "u", "i", "e", "r", "a", "s">>, <<"q", "u", "e", "r", "a", "m", "o", "s">>, <<"q", "u", "i", "e", "r", "a", "n">>,
      <<"t", "e", "n", "g", "a">>, <<"t", "e", "n", "g", "a", "s">>, <<"t", "e", "n", "g", "a", "m", "o", "s">>, <<"t", "e", "n", "g", "a", "n">>,
      <<"v", "e", "n", "g", "a">>, <<"v", "e", "n", "g", "a", "s">>, <<"v", "e", "n", "g", "a", "m", "o", "s">>, <<"v", "e", "n", "g", "a", "n">>,
      <<"d", "i", "g", "a", "s">>, <<"d", "i", "g", "a">>, <<"d", "i", "g", "a", "m", "o", "s">>, <<"d", "i", "g", "a", "n">>,
      <<"o", "y", "a", "s">>, <<"o", "i", "g", "a">>, <<"o", "i", "g", "a", "m", "o", "s">>, <<"o", "i", "g", "a", "n">> >>

conectores_subjuntivo ==
    <<
      <<"q", "u", "e">>, <<"c", "u", "a", "n", "d", "o">>,
      <<"s", "i">>, <<"a", "u", "n", "q", "u", "e">>,
      <<"p", "a", "r", "a", " ", "q", "u", "e">>, <<"a", " ", "f", "i", "n", " ", "d", "e", " ", "q", "u", "e">>,
      <<"c", "o", "m", "o", " ", "s", "i">>, <<"a", " ", "m", "e", "n", "o", "s", " ", "q", "u", "e">>,
      <<"c", "o", "n", " ", "t", "a", "l", " ", "d", "e", " ", "q", "u", "e">>, <<"e", "n", " ", "c", "a", "s", "o", " ", "d", "e", " ", "q", "u", "e">>,
      <<"s", "i", "n", " ", "q", "u", "e">>, <<"a", "n", "t", "e", "s", " ", "d", "e", " ", "q", "u", "e">>,
      <<"o", "j", "a", "l", "a'">>, <<"e", "s", "p", "e", "r", "o", " ", "q", "u", "e">>,
      <<"d", "u", "d", "o", " ", "q", "u", "e">>, <<"n", "o", " ", "c", "r", "e", "o", " ", "q", "u", "e">>,
      <<"e", "s", " ", "p", "o", "s", "i", "b", "l", "e", " ", "q", "u", "e">>, <<"e", "s", " ", "p", "r", "o", "b", "a", "b", "l", "e", " ", "q", "u", "e">>,
      <<"q", "u", "i", "z", "a'", "s">>, <<"t", "a", "l", " ", "v", "e", "z">>,
      <<"a", " ", "n", "o", " ", "s", "e", "r", " ", "q", "u", "e">>, <<"s", "a", "l", "v", "o", " ", "q", "u", "e">>,
      <<"e", "x", "c", "e", "p", "t", "o", " ", "q", "u", "e">> >>

\* The dictionary `lemas`, as <<key, value>> pairs.
lemas ==
    <<
      <<<<"s", "e", "a">>, <<"s", "e", "r">>>>, <<<<"s", "e", "a", "s">>, <<"s", "e", "r">>>>,
      <<<<"s", "e", "a", "m", "o", "s">>, <<"s", "e", "r">>>>, <<<<"s", "e", "a", "n">>, <<"s", "e", "r">>>>,
      <<<<"v", "a", "y", "a">>, <<"i", "r">>>>, <<<<"v", "a", "y", "a", "s">>, <<"i", "r">>>>,
      <<<<"v", "a", "y", "a", "m", "o", "s">>, <<"i", "r">>>>, <<<<"v", "a", "y", "a", "n">>, <<"i", "r">>>>,
      <<<<"h", "a", "y", "a">>, <<"h", "a", "b", "e", "r">>>>, <<<<"h", "a", "y", "a", "s">>, <<"h", "a", "b", "e", "r">>>>,
      <<<<"h", "a", "y", "a", "m", "o", "s">>, <<"h", "a", "b", "e", "r">>>>, <<<<"h", "a", "y", "a", "n">>, <<"h", "a", "b", "e", "r">>>>,
      <<<<"e", "s", "t", "e'">>, <<"e", "s", "t", "a", "r">>>>, <<<<"e", "s", "t", "e'", "s">>, <<"e", "s", "t", "a", "r">>>>,
      <<<<"e", "s", "t", "e", "m", "o", "s">>, <<"e", "s", "t", "a", "r">>>>, <<<<"e", "s", "t", "e'", "n">>, <<"e", "s", "t", "a", "r">>>>,
      <<<<"d", "e'">>, <<"d", "a", "r">>>>, <<<<"d", "e", "s">>, <<"d", "a", "r">>>>,
      <<<<"d", "e", "m", "o", "s">>, <<"d", "a", "r">>>>, <<<<"d", "e", "n">>, <<"d", "a", "r">>>>,
      <<<<"s", "e", "p", "a">>, <<"s", "a", "b", "e", "r">>>>, <<<<"s", "e", "p", "a", "s">>, <<"s", "a", "b", "e", "r">>>>,
      <<<<"s", "e", "p", "a", "m", "o", "s">>, <<"s", "a", "b", "e", "r">>>>, <<<<"s", "e", "p", "a", "n">>, <<"s", "a", "b", "e", "r">>>>,
      <<<<"h", "a", "g", "a">>, <<"h", "a", "c", "e", "r">>>>, <<<<"h", "a", "g", "a", "s">>, <<"h", "a", "c", "e", "r">>>>,
      <<<<"h", "a", "g", "a", "m", "o", "s">>, <<"h", "a", "c", "e", "r">>>>, <<<<"h", "a", "g", "a", "n">>, <<"h", "a", "c", "e", "r">>>>,
      <<<<"p", "u", "e", "d", "a">>, <<"p", "o", "d", "e", "r">>>>, <<<<"p", "u", "e", "d", "a", "s">>, <<"p", "o", "d", "e", "r">>>>,
      <<<<"p", "o", "d", "a", "m", "o", "s">>, <<"p", "o", "d", "e", "r">>>>, <<<<"p", "u", "e", "d", "a", "n">>, <<"p", "o", "d", "e", "r">>>>,
      <<<<"q", "u", "i", "e", "r", "a">>, <<"q", "u", "e", "r", "e", "r">>>>, <<<<"q", "u", "i", "e", "r", "a", "s">>, <<"q", "u", "e", "r", "e", "r">>>>,
      <<<<"q", "u", "e", "r", "a", "m", "o", "s">>, <<"q", "u", "e", "r", "e", "r">>>>, <<<<"q", "u", "i", "e", "r", "a", "n">>, <<"q", "u", "e", "r", "e", "r">>>>,
      <<<<"t", "e", "n", "g", "a">>, <<"t", "e", "n", "e", "r">>>>, <<<<"t", "e", "n", "g", "a", "s">>, <<"t", "e", "n", "e", "r">>>>,
      <<<<"t", "e", "n", "g", "a", "m", "o", "s">>, <<"t", "e", "n", "e", "r">>>>, <<<<"t", "e", "n", "g", "a", "n">>, <<"t", "e", "n", "e", "r">>>>,
      <<<<"v", "e", "n", "g", "a">>, <<"v", "e", "n", "i", "r">>>>, <<<<"v", "e", "n", "g", "a", "s">>, <<"v", "e", "n", "i", "r">>>>,
      <<<<"v", "e", "n", "g", "a", "m", "o", "s">>, <<"v", "e", "n", "i", "r">>>>, <<<<"v", "e", "n", "g", "a", "n">>, <<"v", "e", "n", "i", "r">>>> >>

\* ------------------------------------------------------------------------
\* analizar_texto_local: its nested functions.

\* any(s.endswith(t) for t in lista), and s.endswith(tuple)
TerminaEnAlguna(s, lista) == \E k \in DOMAIN lista : EndsWith(s, lista[k])

FormasIrregulares == Rango(verbos_irregulares)

es_verbo_subjuntivo(p) ==
    LET palabra_limpia == Limpia(p)
    IN  \/ palabra_limpia \in FormasIrregulares
        \/ TerminaEnAlguna(palabra_limpia, subjuntivo_terminaciones)

\* lemas.get(palabra_limpia, palabra_limpia)
obtener_lema(p) ==
    LET palabra_limpia == Limpia(p)
        claves == {k \in DOMAIN lemas : lemas[k][1] = palabra_limpia}
    IN  IF claves = {} THEN palabra_limpia ELSE lemas[MaxDe(claves)][2]

TerminacionesPresente ==
    << <<"a">>, <<"a", "s">>, <<"a", "m", "o", "s">>, <<"a", "n">>,
       <<"e">>, <<"e", "s">>, <<"e", "m", "o", "s">>, <<"e", "n">> >>

TerminacionesImperfecto ==
    << <<"a", "r", "a">>, <<"a", "r", "a", "s">>, <<"a'", "r", "a", "m", "o", "s">>, <<"a", "r", "a", "n">>,
       <<"i", "e", "r", "a">>, <<"i", "e", "r", "a", "s">>, <<"i", "e'", "r", "a", "m", "o", "s">>, <<"i", "e", "r", "a", "n">>,
       <<"e", "r", "a">>, <<"e", "r", "a", "s">>, <<"e'", "r", "a", "m", "o", "s">>, <<"e", "r", "a", "n">>,
       <<"e", "s", "e">>, <<"e", "s", "e", "s">>, <<"e'", "s", "e", "m", "o", "s">>, <<"e", "s", "e", "n">> >>

TerminacionesFuturo ==
    << <<"a", "r", "e">>, <<"a", "r", "e", "s">>, <<"a'", "r", "e", "m", "o", "s">>, <<"a", "r", "e", "n">>,
       <<"i", "e", "r", "e">>, <<"i", "e", "r", "e", "s">>, <<"i", "e'", "r", "e", "m", "o", "s">>, <<"i", "e", "r", "e", "n">> >>

determinar_tiempo(p) ==
    LET palabra_limpia == Limpia(p)
    IN  IF TerminaEnAlguna(palabra_limpia, TerminacionesPresente)
        THEN "Presente"
        ELSE IF TerminaEnAlguna(palabra_limpia, TerminacionesImperfecto)
        THEN "Preterito imperfecto"
        ELSE IF TerminaEnAlguna(palabra_limpia, TerminacionesFuturo)
        THEN "Futuro simple"
        ELSE "Indeterminado"

\* determinar_persona with "amos" left out of the plural endings.
determinar_persona_sin_amos(p) ==
    LET palabra_limpia == Limpia(p)
    IN  IF TerminaEnAlguna(palabra_limpia, << <<"o">>, <<"a">>, <<"e">> >>)
        THEN "1a persona singular"
        ELSE IF TerminaEnAlguna(palabra_limpia, << <<"a", "s">>, <<"e", "s">> >>)
        THEN "2a persona singular"
        ELSE IF TerminaEnAlguna(palabra_limpia, << <<"a">>, <<"e">> >>)
        THEN "3a persona singular"
        ELSE IF TerminaEnAlguna(palabra_limpia, << <<"e", "m", "o", "s">>, <<"i", "m", "o", "s">> >>)
        THEN "1a persona plural"
        ELSE IF TerminaEnAlguna(palabra_limpia, << <<"a'", "i", "s">>, <<"e'", "i", "s">>, <<"i'", "s">> >>)
        THEN "2a persona plural"
        ELSE IF TerminaEnAlguna(palabra_limpia, << <<"a", "n">>, <<"e", "n">> >>)
        THEN "3a persona plural"
        ELSE "Indeterminada"

\* determinar_persona whose first branch tests only "o".
determinar_persona_solo_o(p) ==
    LET palabra_limpia == Limpia(p)
    IN  IF TerminaEnAlguna(palabra_limpia, << <<"o">> >>)
        THEN "1a persona singular"
        ELSE IF TerminaEnAlguna(palabra_limpia, << <<"a", "s">>, <<"e", "s">> >>)
        THEN "2a persona singular"
        ELSE IF TerminaEnAlguna(palabra_limpia, << <<"a">>, <<"e">> >>)
        THEN "3a persona singular"
        ELSE IF TerminaEnAlguna(palabra_limpia, << <<"a", "m", "o", "s">>, <<"e", "m", "o", "s">>, <<"i", "m", "o", "s">> >>)
        THEN "1a persona plural"
        ELSE IF TerminaEnAlguna(palabra_limpia, << <<"a'", "i", "s">>, <<"e'", "i", "s">>, <<"i'", "s">> >>)
        THEN "2a persona plural"
        ELSE IF TerminaEnAlguna(palabra_limpia, << <<"a", "n">>, <<"e", "n">> >>)
        THEN "3a persona plural"
        ELSE "Indeterminada"

determinar_persona(p) ==
    LET palabra_limpia == Limpia(p)
    IN  IF TerminaEnAlguna(palabra_limpia, << <<"o">>, <<"a">>, <<"e">> >>)
        THEN "1a persona singular"
        ELSE IF TerminaEnAlguna(palabra_limpia, << <<"a", "s">>, <<"e", "s">> >>)
        THEN "2a persona singular"
        ELSE IF TerminaEnAlguna(palabra_limpia, << <<"a">>, <<"e">> >>)
        THEN "3a persona singular"
        ELSE IF TerminaEnAlguna(palabra_limpia, << <<"a", "m", "o", "s">>, <<"e", "m", "o", "s">>, <<"i", "m", "o", "s">> >>)
        THEN "1a persona plural"
        ELSE IF TerminaEnAlguna(palabra_limpia, << <<"a'", "i", "s">>, <<"e'", "i", "s">>, <<"i'", "s">> >>)
        THEN "2a persona plural"
        ELSE IF TerminaEnAlguna(palabra_limpia, << <<"a", "n">>, <<"e", "n">> >>)
        THEN "3a persona plural"
        ELSE "Indeterminada"

Puntuaciones == << ".", "!", "?", ";" >>

\* encontrar_clausula that ends the clause before the punctuation mark
\* (fin = idx for fin = idx + 1).
encontrar_clausula_sin_cierre(t, pos) ==
    LET inicio0 == Max2(0, pos - Ventana)
        fin0 == Min2(Len(t), pos + Ventana)
        hallados == {k \in DOMAIN conectores_subjuntivo :
                        RFind(t, conectores_subjuntivo[k], inicio0, pos) # -1}
        inicio == IF hallados = {} THEN inicio0
                  ELSE RFind(t, conectores_subjuntivo[MinDe(hallados)], inicio0, pos)
        cierran == {k \in DOMAIN Puntuaciones :
                       /\ Find(t, << Puntuaciones[k] >>, pos) # -1
                       /\ Find(t, << Puntuaciones[k] >>, pos) < fin0}
        fin == IF cierran = {} THEN fin0
               ELSE Find(t, << Puntuaciones[MinDe(cierran)] >>, pos)
    IN  Strip(Slice(t, inicio, fin))

encontrar_clausula(t, pos) ==
    LET inicio0 == Max2(0, pos - Ventana)
        fin0 == Min2(Len(t), pos + Ventana)
        \* for conector in conectores_subjuntivo: the first one found wins
        hallados == {k \in DOMAIN conectores_subjuntivo :
                        RFind(t, conectores_subjuntivo[k], inicio0, pos) # -1}
        inicio == IF hallados = {} THEN inicio0
                  ELSE RFind(t, conectores_subjuntivo[MinDe(hallados)], inicio0, pos)
        \* for puntuacion in ['.', '!', '?', ';']: the first one found in
        \* the window wins
        cierran == {k \in DOMAIN Puntuaciones :
                       /\ Find(t, << Puntuaciones[k] >>, pos) # -1
                       /\ Find(t, << Puntuaciones[k] >>, pos) < fin0}
        fin == IF cierran = {} THEN fin0
               ELSE Find(t, << Puntuaciones[MinDe(cierran)] >>, pos) + 1
    IN  Strip(Slice(t, inicio, fin))

\* One entry of `resultados` (lines 245-251).
Hallazgo(t, p, pos) ==
    [ verbo |-> Slice(t, pos, pos + Len(p)),
      lema |-> obtener_lema(p),
      tiempo |-> determinar_tiempo(p),
      persona |-> determinar_persona(p),
      clausula |-> encontrar_clausula(t, pos) ]

\* posiciones: the tokens of texto.lower() with their offsets (lines 236-239).
Posiciones(t) == Finditer(Lower(t))

EsVerboEn(par) == es_verbo_subjuntivo(par[1])

\* The loop of lines 241-251: the list under the key "verbos_subjuntivo" of
\* the returned dict.
analizar_texto_local(t) ==
    LET verbos == SelectSeq(Posiciones(t), EsVerboEn)
    IN  [k \in DOMAIN verbos |-> Hallazgo(t, verbos[k][1], verbos[k][2])]

\* ------------------------------------------------------------------------
\* Inputs of the page: the texts typed into the text area, the keys typed
\* into the sidebar and the replies of the remote service.

Repetir(c, n) == [i \in 1 .. n |-> c]

\* section 8 of the specification
TextoQuisiera ==
    << "Q", "u", "i", "s", "i", "e", "r", "a", " ", "q", "u", "e",
       " ", "h", "i", "c", "i", "e", "r", "a", "s", " ", "e", "l",
       " ", "t", "r", "a", "b", "a", "j", "o", "." >>

TextoEspero ==
    << "E", "s", "p", "e", "r", "o", " ", "q", "u", "e", " ", "v",
       "e", "n", "g", "a", "s", " ", "a", " ", "l", "a", " ", "f",
       "i", "e", "s", "t", "a", "." >>

TextoOjala ==
    << "O", "j", "a", "l", "a'", " ", "q", "u", "e", " ", "t", "e",
       "n", "g", "a", "s", " ", "u", "n", " ", "b", "u", "e", "n",
       " ", "d", "i'", "a", "." >>

\* ejemplos, line 429
TextoEjemplo2 ==
    << "Q", "u", "i", "e", "r", "o", " ", "q", "u", "e", " ", "v",
       "e", "n", "g", "a", "s", " ", "a", " ", "l", "a", " ", "f",
       "i", "e", "s", "t", "a", ".", " ", "D", "u", "d", "o", " ",
       "q", "u", "e", " ", "e", "l", "l", "a", " ", "p", "u", "e",
       "d", "a", " ", "a", "s", "i", "s", "t", "i", "r", "." >>

TextoHayamos ==
    << "D", "u", "d", "o", " ", "q", "u", "e", " ", "h", "a", "y",
       "a", "m", "o", "s", " ", "l", "l", "e", "g", "a", "d", "o",
       ";", " ", "n", "o", " ", "s", "i", "!" >>

\* U+0130 before a verb
TextoPuntoArriba ==
    << "I.", " ", "v", "e", "n", "g", "a", "s" >>

TextoDosPuntosArriba ==
    << "I.", "I.", " ", "v", "e", "n", "g", "a", "s", ".", " ", "a",
       "b" >>

\* only whitespace
TextoEnBlanco ==
    << " ", " ", "\n" >>

\* A single word longer than the window.
TextoPalabraLarga == Repetir("z", Ventana) \o << "a" >>

\* "Ojala que <form>." for every key of `lemas`.
TextosDeLemas ==
    { << "O", "j", "a", "l", "a'", " ", "q", "u", "e", " " >> \o lemas[k][1] \o << "." >> :
          k \in DOMAIN lemas }

Textos ==
    { << >>, TextoQuisiera, TextoEspero, TextoOjala, TextoEjemplo2, TextoHayamos,
      TextoPuntoArriba, TextoDosPuntosArriba, TextoEnBlanco, TextoPalabraLarga }
        \cup TextosDeLemas

Claves == {"", "clave1", "clave2"}

\* A reply of requests.post, by the branch of lines 84-106 it takes.
Respuestas ==
    [ conexion : {"ok", "error"},
      estado : {"2xx", "error_http"},
      candidatos : BOOLEAN,
      contenido : {"sin_llaves", "json_invalido", "objeto_sin_clave",
                   "objeto_lista_vacia", "objeto_con_verbos"} ]

SinRespuesta == [conexion |-> "ninguna", estado |-> "ninguno",
                 candidatos |-> FALSE, contenido |-> "ninguno"]

\* The findings a well-formed reply of the service carries.
HallazgosGemini ==
    << [ verbo |-> << "v", "e", "n", "g", "a", "s" >>,
         lema |-> << "v", "e", "n", "i", "r" >>,
         tiempo |-> "Presente",
         persona |-> "2a persona singular",
         clausula |-> << "q", "u", "e", " ", "v", "e", "n", "g", "a", "s" >> ] >>

\* ------------------------------------------------------------------------
\* Values of `resultados`.

None == [tipo |-> "None", claves |-> {}, verbos_subjuntivo |-> << >>]

\* A dict; claves are its keys.
Dict(claves, lista) == [tipo |-> "dict", claves |-> claves, verbos_subjuntivo |-> lista]

\* `resultados` is not assigned in a run that analyses nothing.
SinAsignar == [tipo |-> "sin asignar", claves |-> {}, verbos_subjuntivo |-> << >>]

\* The dict analizar_texto_local returns (line 253).
ResultadoLocal(t) == Dict({"verbos_subjuntivo"}, analizar_texto_local(t))

\* ------------------------------------------------------------------------
\* st.session_state

SinClave == [k \in {} |-> ""]

ConClave(clave) == [k \in {"gemini_api_key"} |-> clave]

\* Lines 28-33, run at the top of every script run.
AlmacenarClave(clave, estado) == IF clave # "" THEN ConClave(clave) ELSE estado

analizar_con_gemini(estado, r) ==
    IF "gemini_api_key" \notin DOMAIN estado THEN None
    ELSE IF r.conexion = "error" THEN None        \* requests.post raises
    ELSE IF r.estado # "2xx" THEN None            \* raise_for_status raises
    ELSE IF ~r.candidatos THEN None               \* line 100
    ELSE IF r.contenido = "sin_llaves" THEN None  \* line 97
    ELSE IF r.contenido = "json_invalido" THEN None   \* json.loads raises
    ELSE IF r.contenido = "objeto_sin_clave" THEN Dict({"error"}, << >>)
    ELSE IF r.contenido = "objeto_lista_vacia" THEN Dict({"verbos_subjuntivo"}, << >>)
    ELSE Dict({"verbos_subjuntivo"}, HallazgosGemini)

\* ------------------------------------------------------------------------
\* The page: every action is one run of the script.

SinCalcular == "sin calcular"

PalabraFija ==
    /\ palabra = << >>
    /\ tiempo = SinCalcular
    /\ persona = SinCalcular

ClausulaFija ==
    /\ n_piezas = 0
    /\ posicion = -1
    /\ clausula = << >>

PaginaFija ==
    /\ api_key = ""
    /\ session_state = SinClave
    /\ resultados = SinAsignar
    /\ ruta = "ninguna"
    /\ respuesta = SinRespuesta

Init ==
    /\ PaginaFija
    /\ texto = << >>
    /\ PalabraFija
    /\ ClausulaFija

\* A run whose button was not pressed analyses nothing.
SinAnalisis ==
    /\ resultados' = SinAsignar
    /\ ruta' = "ninguna"
    /\ respuesta' = SinRespuesta

\* The user edits the sidebar field (line 24); the script runs again.
EscribirApiKey(clave) ==
    /\ clave # api_key
    /\ api_key' = clave
    /\ session_state' = AlmacenarClave(clave, session_state)
    /\ SinAnalisis
    /\ UNCHANGED <<texto, palabra, tiempo, persona, n_piezas, posicion, clausula>>

\* The user edits the text area (line 338); the script runs again.
EscribirTexto(t) ==
    /\ t # texto
    /\ texto' = t
    /\ session_state' = AlmacenarClave(api_key, session_state)
    /\ SinAnalisis
    /\ UNCHANGED <<api_key, palabra, tiempo, persona, n_piezas, posicion, clausula>>

\* The button of line 364.
PulsarAnalizar ==
    /\ session_state' = AlmacenarClave(api_key, session_state)
    /\ \/ /\ Strip(texto) = << >>
          /\ SinAnalisis
       \/ /\ Strip(texto) # << >>
          /\ "gemini_api_key" \in DOMAIN session_state'
          /\ \E r \in Respuestas :
                /\ respuesta' = r
                /\ resultados' = analizar_con_gemini(session_state', r)
          /\ ruta' = "gemini"
       \/ /\ Strip(texto) # << >>
          /\ "gemini_api_key" \notin DOMAIN session_state'
          /\ resultados' = ResultadoLocal(texto)
          /\ ruta' = "local"
          /\ respuesta' = SinRespuesta
    /\ UNCHANGED <<api_key, texto, palabra, tiempo, persona, n_piezas, posicion, clausula>>

\* An example button (lines 431-435): it assigns the local variable `texto`
\* and reruns the script, which reads the text area again.
PulsarEjemplo ==
    /\ session_state' = AlmacenarClave(api_key, session_state)
    /\ SinAnalisis
    /\ UNCHANGED <<api_key, texto, palabra, tiempo, persona, n_piezas, posicion, clausula>>

Next ==
    \/ \E clave \in Claves : EscribirApiKey(clave)
    \/ \E t \in Textos : EscribirTexto(t)
    \/ PulsarAnalizar
    \/ PulsarEjemplo

Spec == Init /\ [][Next]_vars

\* ------------------------------------------------------------------------
\* determinar_tiempo and determinar_persona on their own.

MaxRaiz == 3

LetrasRaiz == {"h", "a", "y", "s"}

Raices == UNION {[1 .. n -> LetrasRaiz] : n \in 0 .. MaxRaiz}

\* Every ending the code names, and none.
Terminaciones ==
    Rango(subjuntivo_terminaciones) \cup Rango(TerminacionesPresente)
        \cup Rango(TerminacionesImperfecto) \cup Rango(TerminacionesFuturo)
        \cup { << "o" >>, << "i", "m", "o", "s" >>, << "a'", "i", "s" >>,
               << "e'", "i", "s" >>, << "i'", "s" >>, << >> }

Palabras == {r \o t : r \in Raices, t \in Terminaciones}

InitPalabra ==
    /\ PaginaFija
    /\ texto = << >>
    /\ ClausulaFija
    /\ palabra \in Palabras
    /\ tiempo = SinCalcular
    /\ persona = SinCalcular

DeterminarTiempo ==
    /\ tiempo' = determinar_tiempo(palabra)
    /\ UNCHANGED <<api_key, session_state, texto, resultados, ruta, respuesta,
                   palabra, persona, n_piezas, posicion, clausula>>

DeterminarPersona ==
    /\ persona' = determinar_persona(palabra)
    /\ UNCHANGED <<api_key, session_state, texto, resultados, ruta, respuesta,
                   palabra, tiempo, n_piezas, posicion, clausula>>

NextPalabra == DeterminarTiempo \/ DeterminarPersona

SpecPalabra == InitPalabra /\ [][NextPalabra]_vars

\* ------------------------------------------------------------------------
\* encontrar_clausula on texts typed piece by piece.

MaxPiezas == 3

Relleno(n) == Repetir(",", n)

Que == << "q", "u", "e", " " >>

Punto == << "." >>

\* A filler of Ventana - 4 characters puts the "que " before it exactly
\* Ventana characters before what follows, and the "." after it at the last
\* offset of the window of a three-letter verb; one more character puts
\* them just outside.
Piezas ==
    { Que, << "s", "i", " " >>, << "s", "e", "a" >>, Punto, << "!" >>,
      Que \o Relleno(Ventana - 4), Que \o Relleno(Ventana - 3),
      Relleno(Ventana - 4) \o Punto, Relleno(Ventana - 3) \o Punto }

InitClausula ==
    /\ PaginaFija
    /\ PalabraFija
    /\ texto = << >>
    /\ ClausulaFija

AgregarPieza(p) ==
    /\ n_piezas < MaxPiezas
    /\ n_piezas' = n_piezas + 1
    /\ texto' = texto \o p
    /\ posicion' = -1
    /\ clausula' = << >>
    /\ UNCHANGED <<api_key, session_state, resultados, ruta, respuesta,
                   palabra, tiempo, persona>>

\* One iteration of the loop of lines 241-251 that finds a verb.
EncontrarClausula ==
    /\ LET posiciones == Posiciones(texto)
       IN  \E k \in DOMAIN posiciones :
              /\ es_verbo_subjuntivo(posiciones[k][1])
              /\ posicion' = posiciones[k][2]
              /\ clausula' = encontrar_clausula(texto, posiciones[k][2])
    /\ UNCHANGED <<api_key, session_state, texto, resultados, ruta, respuesta,
                   palabra, tiempo, persona, n_piezas>>

NextClausula ==
    \/ \E p \in Piezas : AgregarPieza(p)
    \/ EncontrarClausula

SpecClausula == InitClausula /\ [][NextClausula]_vars

\* ------------------------------------------------------------------------
\* Properties.

\* s contains t as a substring.
Contiene(s, t) == \E i \in 0 .. (Len(s) - Len(t)) : SubSeq(s, i + 1, i + Len(t)) = t

\* The findings of the current run.
Hallazgos == resultados.verbos_subjuntivo

\* The remote call failed: network error, non-2xx status, no candidates, no
\* JSON object in the reply, malformed JSON, or an object without the array.
Fallida(r) ==
    \/ r.conexion = "error"
    \/ r.estado # "2xx"
    \/ ~r.candidatos
    \/ r.contenido \in {"sin_llaves", "json_invalido", "objeto_sin_clave"}

\* C1: when an analysis runs with a key configured and the remote call
\* fails, the result is the output of analizar_texto_local on the same text.
C1_FalloRemotoEntregaLocal ==
    (ruta = "gemini" /\ Fallida(respuesta)) => resultados = ResultadoLocal(texto)

\* C2: every analysis triggered while the key field is empty goes to
\* analizar_texto_local and makes no remote call.
C2_CampoVacioVaLocal ==
    (ruta # "ninguna" /\ api_key = "") => (ruta = "local" /\ respuesta = SinRespuesta)

\* C3: for "Quisiera que hicieras el trabajo." the local analysis returns a
\* finding "Quisiera" with lemma "querer" and a finding "hicieras" with
\* lemma "hacer".
C3_QuisieraHicieras ==
    (texto = TextoQuisiera /\ ruta = "local") =>
        /\ \E k \in DOMAIN Hallazgos :
              /\ Hallazgos[k].verbo = << "Q", "u", "i", "s", "i", "e", "r", "a" >>
              /\ Hallazgos[k].lema = << "q", "u", "e", "r", "e", "r" >>
        /\ \E k \in DOMAIN Hallazgos :
              /\ Hallazgos[k].verbo = << "h", "i", "c", "i", "e", "r", "a", "s" >>
              /\ Hallazgos[k].lema = << "h", "a", "c", "e", "r" >>

EsLetra(c) == c \in LetrasClase \cup LetrasMayusculas

\* The words of t: the maximal runs of letters between characters that are
\* not word characters, each as <<first offset, offset after the last>>.
PalabrasDe(t) ==
    { par \in { <<i, FinDeRacha(t, i)>> :
                  i \in {i \in 0 .. (Len(t) - 1) : EsW(t[i + 1]) /\ (i = 0 \/ ~EsW(t[i]))} } :
        \A k \in (par[1] + 1) .. par[2] : EsLetra(t[k]) }

\* C4: for every word of the text that is a key of `lemas`, the local
\* analysis returns a finding whose surface form is that word and whose
\* lemma is its infinitive.
C4_IrregularesConLema ==
    ruta = "local" =>
        \A par \in PalabrasDe(texto) : \A c \in DOMAIN lemas :
            Lower(Slice(texto, par[1], par[2])) = lemas[c][1] =>
                \E k \in DOMAIN Hallazgos :
                    /\ Hallazgos[k].verbo = Slice(texto, par[1], par[2])
                    /\ Hallazgos[k].lema = lemas[c][2]

\* C5: a word ending in an imperfect-subjunctive suffix gets "Preterito
\* imperfecto" and a word ending in a future-subjunctive suffix gets "Futuro
\* simple"; a present suffix never masks them.
C5_TiempoPorGrupo ==
    tiempo # SinCalcular =>
        /\ TerminaEnAlguna(palabra, TerminacionesImperfecto) => tiempo = "Preterito imperfecto"
        /\ TerminaEnAlguna(palabra, TerminacionesFuturo) => tiempo = "Futuro simple"

\* C6: every word ending in -amos or -emos is classified "1a persona plural".
C6_AmosEmosPrimeraPlural ==
    ( /\ persona # SinCalcular
      /\ Len(palabra) >= 4
      /\ SubSeq(palabra, Len(palabra) - 3, Len(palabra))
            \in { << "a", "m", "o", "s" >>, << "e", "m", "o", "s" >> } )
        => persona = "1a persona plural"

\* "hayamos" has been classified.
C6_HayamosClasificada ==
    /\ palabra = << "h", "a", "y", "a", "m", "o", "s" >>
    /\ persona = "1a persona plural"

\* C7: the clause of every finding of the local analysis contains the
\* finding's surface form, and its lemma is not empty.
C7_ClausulaContieneVerbo ==
    ruta = "local" =>
        \A k \in DOMAIN Hallazgos :
            /\ Contiene(Hallazgos[k].clausula, Hallazgos[k].verbo)
            /\ Hallazgos[k].lema # << >>

\* Offsets, within the Ventana characters before pos, where a connector of
\* the list starts and ends before pos.
ConectoresAntes(t, pos) ==
    { i \in Max2(0, pos - Ventana) .. (pos - 1) :
        \E c \in DOMAIN conectores_subjuntivo :
            /\ i + Len(conectores_subjuntivo[c]) <= pos
            /\ Slice(t, i, i + Len(conectores_subjuntivo[c])) = conectores_subjuntivo[c] }

\* Offsets of the sentence-terminal characters in the forward window of pos.
CierresDespues(t, pos) ==
    { j \in pos .. (Min2(Len(t), pos + Ventana) - 1) : t[j + 1] \in {".", "!", "?", ";"} }

\* C8: the clause is the trimmed span from the closest preceding connector
\* in the window (or the window boundary) to the nearest following
\* sentence-terminal character in the forward window, inclusive (or the
\* forward window boundary).
C8_ConectorYCierreMasCercanos ==
    posicion >= 0 =>
        clausula =
            Strip(Slice(texto,
                        IF ConectoresAntes(texto, posicion) = {}
                        THEN Max2(0, posicion - Ventana)
                        ELSE MaxDe(ConectoresAntes(texto, posicion)),
                        IF CierresDespues(texto, posicion) = {}
                        THEN Min2(Len(texto), posicion + Ventana)
                        ELSE MinDe(CierresDespues(texto, posicion)) + 1))

\* Offsets, within the Ventana characters before pos, where "que" occurs.
QueAntes(t, pos) ==
    { i \in Max2(0, pos - Ventana) .. (pos - 3) :
        t[i + 1] = "q" /\ t[i + 2] = "u" /\ t[i + 3] = "e" }

\* Offsets of the periods in the forward window of pos.
PuntosDespues(t, pos) ==
    { j \in pos .. (Min2(Len(t), pos + Ventana) - 1) : t[j + 1] = "." }

\* C9: for a detected verb with "que" within the 100 characters before it
\* and a period in the 100-character forward window, the clause runs from
\* the closest such "que" to the nearest such period, period included.
C9_DeQueAPunto ==
    ( /\ posicion >= 0
      /\ QueAntes(texto, posicion) # {}
      /\ PuntosDespues(texto, posicion) # {} )
        => clausula = SubSeq(texto, MaxDe(QueAntes(texto, posicion)) + 1,
                                    MinDe(PuntosDespues(texto, posicion)) + 1)

\* A clause found with the only "que" at the far edge of the backward window
\* and the only period at the last offset of the forward window.
C9_QueYPuntoEnLosBordes ==
    /\ posicion >= Ventana
    /\ QueAntes(texto, posicion) = {posicion - Ventana}
    /\ PuntosDespues(texto, posicion) = {posicion + Ventana - 1}
    /\ Len(clausula) = 2 * Ventana

\* C10: determinar_persona never returns "3a persona singular"; its results
\* are the other six.
C10_NuncaTerceraSingular ==
    persona # SinCalcular =>
        persona \in { "1a persona singular", "2a persona singular", "1a persona plural",
                      "2a persona plural", "3a persona plural", "Indeterminada" }

\* A word ending in -a or -e has been classified by the first branch.
C10_VocalFinalClasificada ==
    /\ Len(palabra) > 0
    /\ palabra[Len(palabra)] \in {"a", "e"}
    /\ persona = "1a persona singular"
====
